---- MODULE Spec2Model ----
(***************************************************************************)
(* HiddenElector: the election contract (contracts/HiddenElector.sol).     *)
(* Every external call is one EVM transaction: it runs to completion on    *)
(* the contract's storage, and a revert restores the storage it started    *)
(* from. Calls issued concurrently are therefore interleavings of the      *)
(* actions below. Ciphertexts (euint32) are modelled by their plaintext,   *)
(* their access-control status and their public-decryption flag; the       *)
(* plaintext is never read by a guard of the contract. A reverted call     *)
(* leaves no trace in the chain state, so the outcome of a call is the     *)
(* operator ...Outcome of the state and the call's inputs.                 *)
(***************************************************************************)
EXTENDS Integers, Sequences, FiniteSets

\* ---------------------------------------------------------------- bounds
MaxElections == 2          \* elections that can be created in a run
MaxCalls == 5              \* successful createElection/vote/finalizeElection calls in a run
MaxTime == 2               \* block.timestamp ranges over 0..MaxTime

\* ------------------------------------------------------ program constants
MIN_OPTIONS == 2
MAX_OPTIONS == 8

\* ------------------------------------------------------------ input sets
Addresses == {"alice", "bob"}
ZeroAddress == "0x0"
Ids == 0 .. MaxElections                  \* identifiers a caller may pass
\* The createElection calls of a run: two well-formed ones, and one for each
\* way of being ill-formed.
CreateRequests ==
    { [sender |-> "alice", name |-> "Poll", options |-> <<"Yes", "No">>, endTime |-> 1],
      [sender |-> "bob", name |-> "Budget", options |-> <<"A", "B", "C">>, endTime |-> 2],
      [sender |-> "bob", name |-> "", options |-> <<"Yes", "No">>, endTime |-> 2],
      [sender |-> "alice", name |-> "Poll", options |-> <<"Yes", "No">>, endTime |-> 0],
      [sender |-> "alice", name |-> "Poll", options |-> <<"Yes">>, endTime |-> 2],
      [sender |-> "alice", name |-> "Poll",
       options |-> <<"1", "2", "3", "4", "5", "6", "7", "8", "9">>, endTime |-> 2],
      [sender |-> "bob", name |-> "Poll", options |-> <<"", "No">>, endTime |-> 2],
      [sender |-> "bob", name |-> "Poll", options |-> <<"A", "", "C">>, endTime |-> 2] }
\* The createElection calls the claims range over: those of a run, and every
\* combination of an empty or non-empty name, a list of 0, 1, 2, 3, 8 or 9
\* labels or one with an empty label, and a closing time (no check of
\* createElection reads the sender).
OptionLists ==
    { <<>>,
      <<"Yes">>,
      <<"Yes", "No">>,
      <<"A", "B", "C">>,
      <<"1", "2", "3", "4", "5", "6", "7", "8">>,
      <<"1", "2", "3", "4", "5", "6", "7", "8", "9">>,
      <<"">>,
      <<"", "No">>,
      <<"A", "", "C">> }
CreateInputs ==
    CreateRequests \cup
    [sender : {"alice"}, name : {"", "Poll"}, options : OptionLists,
     endTime : 0 .. (MaxTime + 1)]
\* The plaintexts a voter may encrypt: 2 is no option of a two-option election.
Choices == {0, 1, 2}
OptionIndexes == 0 .. (MAX_OPTIONS - 1)

\* ------------------------------------------------------------- outcomes
OK == "ok"

VARIABLES
    now,              \* block.timestamp
    nextElectionId,   \* _nextElectionId
    elections,        \* _elections
    tallies,          \* _tallies
    hasVoted,         \* _hasVoted
    ballots,          \* history: per (election, voter) the plaintexts of the
                      \* accepted votes, one entry per VoteSubmitted event
    finalizedAt,      \* history: per election the timestamps of its
                      \* ElectionFinalized events
    createdLog        \* history: per election its ElectionCreated events

storage == <<nextElectionId, elections, tallies, hasVoted>>
vars == <<now, nextElectionId, elections, tallies, hasVoted, ballots, finalizedAt,
          createdLog>>

\* ------------------------------------------- encrypted-arithmetic library
\* A ciphertext handle. init: FHE.isInitialized; val: the plaintext;
\* acl: whether the contract may compute on it ("none", "transient" for the
\* transaction that produced it, "persistent" after FHE.allowThis);
\* pub: FHE.isPubliclyDecryptable.
\* euint32 arithmetic wraps at 2^32; a tally grows by at most one per voting
\* address, so with the addresses of this model no sum comes near the wrap
\* and the plaintexts are kept as plain naturals.
Uninitialized == [init |-> FALSE, val |-> 0, acl |-> "none", pub |-> FALSE]

asEuint32(n) ==
    [init |-> TRUE, val |-> n, acl |-> "transient", pub |-> FALSE]

isInitialized(c) == c.init

senderAllowed(c) == c.acl # "none"

\* FHE.eq yields an ebool; its plaintext is the comparison of the plaintexts.
eq(a, b) == [init |-> TRUE, val |-> (a.val = b.val), acl |-> "transient", pub |-> FALSE]

select(cond, a, b) ==
    [init |-> TRUE, val |-> (IF cond.val THEN a.val ELSE b.val),
     acl |-> "transient", pub |-> FALSE]

\* FHE.add takes an uninitialized operand as an encrypted zero.
add(a, b) ==
    LET lhs == IF isInitialized(a) THEN a ELSE asEuint32(0)
        rhs == IF isInitialized(b) THEN b ELSE asEuint32(0)
    IN [init |-> TRUE, val |-> lhs.val + rhs.val,
        acl |-> "transient", pub |-> FALSE]

allowThis(c) == [c EXCEPT !.acl = "persistent"]

makePubliclyDecryptable(c) == [c EXCEPT !.pub = TRUE]

isPubliclyDecryptable(c) == c.pub

\* An external input: the ciphertext of val with a proof that verifies or not.
ExternalInputs ==
    {[val |-> c, proofOk |-> TRUE] : c \in Choices} \cup {[val |-> 1, proofOk |-> FALSE]}

\* Transient permissions end with the transaction.
EndOfTransaction(t) ==
    [e \in DOMAIN t |->
        [i \in DOMAIN t[e] |->
            IF t[e][i].acl = "transient" THEN [t[e][i] EXCEPT !.acl = "none"]
            ELSE t[e][i]]]

\* --------------------------------------------------------------- storage
EmptyElection ==
    [name |-> "", endTime |-> 0, finalized |-> FALSE,
     creator |-> ZeroAddress, options |-> <<>>]

Init ==
    /\ now = 0
    /\ nextElectionId = 0
    /\ elections = [e \in Ids |-> EmptyElection]
    /\ tallies = [e \in Ids |-> [i \in OptionIndexes |-> Uninitialized]]
    /\ hasVoted = [e \in Ids |-> [a \in Addresses |-> FALSE]]
    /\ ballots = [e \in Ids |-> [a \in Addresses |-> <<>>]]
    /\ finalizedAt = [e \in Ids |-> <<>>]
    /\ createdLog = [e \in Ids |-> <<>>]

\* Sum of f[x] over the finite set S.
RECURSIVE SumOver(_, _)
SumOver(f, S) ==
    IF S = {} THEN 0
    ELSE LET x == CHOOSE y \in S : TRUE IN f[x] + SumOver(f, S \ {x})

\* The successful calls so far: one per event emitted.
CallsMade ==
    nextElectionId
    + SumOver([p \in Ids \X Addresses |-> Len(ballots[p[1]][p[2]])], Ids \X Addresses)
    + SumOver([e \in Ids |-> Len(finalizedAt[e])], Ids)

\* Mutant: identifier 0 is taken as the missing election.
requireElectionNonZeroId(electionId) ==
    IF electionId = 0 \/ Len(elections[electionId].name) = 0 THEN "ElectionNotFound"
    ELSE OK

\* _requireElection: an election exists when its stored name is not empty.
requireElection(electionId) ==
    IF Len(elections[electionId].name) = 0 THEN "ElectionNotFound" ELSE OK

\* Mutant: the index equal to the option count passes (> for >=).
requireValidOptionInclusive(electionId, optionIndex) ==
    IF requireElection(electionId) # OK THEN "ElectionNotFound"
    ELSE IF optionIndex > Len(elections[electionId].options) THEN "InvalidOption"
    ELSE OK

\* _requireValidOption
requireValidOption(electionId, optionIndex) ==
    IF requireElection(electionId) # OK THEN "ElectionNotFound"
    ELSE IF optionIndex >= Len(elections[electionId].options) THEN "InvalidOption"
    ELSE OK

\* ---------------------------------------------------------------- events
\* The event records, with the parameters of their declarations.
ElectionCreated(electionId, creator, name, endTime) ==
    [kind |-> "ElectionCreated", electionId |-> electionId, creator |-> creator,
     name |-> name, endTime |-> endTime]

VoteSubmitted(electionId, voter) ==
    [kind |-> "VoteSubmitted", electionId |-> electionId, voter |-> voter]

ElectionFinalized(electionId, at) ==
    [kind |-> "ElectionFinalized", electionId |-> electionId, finalizedAt |-> at]

\* ------------------------------------------------------- createElection
\* The loop of lines 67-72: pushes options[i], i = from..Len, onto stored and
\* reverts at the first empty label.
\* Mutant: only the first label is checked for emptiness.
PushOptionsFirstOnly(stored, options, from) ==
    IF from <= Len(options) /\ Len(options[from]) = 0
    THEN [err |-> "EmptyOption", options |-> stored]
    ELSE [err |-> OK, options |-> stored \o SubSeq(options, from, Len(options))]

\* Mutant: the labels are stored without the emptiness check.
PushOptionsNoCheck(stored, options, from) ==
    [err |-> OK, options |-> stored \o SubSeq(options, from, Len(options))]

RECURSIVE PushOptions(_, _, _)
PushOptions(stored, options, from) ==
    IF from > Len(options) THEN [err |-> OK, options |-> stored]
    ELSE IF Len(options[from]) = 0 THEN [err |-> "EmptyOption", options |-> stored]
    ELSE PushOptions(Append(stored, options[from]), options, from + 1)

\* Mutant: the new election is stored as already finalized.
WriteHeaderFinalized(election, sender, name, endTime) ==
    [election EXCEPT !.name = name, !.endTime = endTime, !.creator = sender,
                     !.finalized = TRUE]

\* Lines 62-65: the fields createElection writes before the options.
WriteHeader(election, sender, name, endTime) ==
    [election EXCEPT !.name = name, !.endTime = endTime, !.creator = sender]

\* Mutant: a closing time equal to the current time passes (< for <=).
invalidEndTimeStrict(endTime) == endTime < now

\* Line 54.
invalidEndTime(endTime) == endTime <= now

\* Mutant: no upper limit on the number of options.
invalidOptionCountNoMax(options) == Len(options) < MIN_OPTIONS

\* Line 57.
invalidOptionCount(options) ==
    Len(options) < MIN_OPTIONS \/ Len(options) > MAX_OPTIONS

\* Mutant: the counter is incremented before it is read (++_nextElectionId).
AllocateIdPreIncrement(next) == [id |-> next + 1, next |-> next + 1]

\* Line 61: electionId = _nextElectionId++.
AllocateId(next) == [id |-> next, next |-> next + 1]

\* The outcome of createElection(name, options, endTime) sent by sender:
\* err, the identifier returned, and the storage written when err = OK.
\* Mutant: the option count is checked before the closing time.
CreateOutcomeCountFirst(sender, name, options, endTime) ==
    IF Len(name) = 0 THEN [err |-> "EmptyOption"]
    ELSE IF invalidOptionCount(options) THEN [err |-> "InvalidOptionCount"]
    ELSE IF invalidEndTime(endTime) THEN [err |-> "InvalidEndTime"]
    ELSE
        LET allocated == AllocateId(nextElectionId)
            electionId == allocated.id
            election == WriteHeader(elections[electionId], sender, name, endTime)
            pushed == PushOptions(election.options, options, 1)
        IN IF pushed.err # OK THEN [err |-> pushed.err]
           ELSE [err |-> OK,
                 id |-> electionId,
                 nextElectionId |-> allocated.next,
                 elections |-> [elections EXCEPT
                     ![electionId] = [election EXCEPT !.options = pushed.options]]]

CreateOutcome(sender, name, options, endTime) ==
    IF Len(name) = 0 THEN [err |-> "EmptyOption"]
    ELSE IF invalidEndTime(endTime) THEN [err |-> "InvalidEndTime"]
    ELSE IF invalidOptionCount(options) THEN [err |-> "InvalidOptionCount"]
    ELSE
        LET allocated == AllocateId(nextElectionId)
            electionId == allocated.id
            election == WriteHeader(elections[electionId], sender, name, endTime)
            pushed == PushOptions(election.options, options, 1)
        IN IF pushed.err # OK THEN [err |-> pushed.err]
           ELSE [err |-> OK,
                 id |-> electionId,
                 nextElectionId |-> allocated.next,
                 elections |-> [elections EXCEPT
                     ![electionId] = [election EXCEPT !.options = pushed.options]]]

\* Mutant: a revert inside the options loop does not roll back the
\* identifier, the header and the labels written before it.
CreateElectionNoRollback(sender, name, options, endTime) ==
    /\ nextElectionId < MaxElections
    /\ LET out == CreateOutcome(sender, name, options, endTime)
           allocated == AllocateId(nextElectionId)
           election == WriteHeader(elections[allocated.id], sender, name, endTime)
           pushed == PushOptions(election.options, options, 1)
       IN IF out.err = OK
          THEN /\ CallsMade < MaxCalls
               /\ nextElectionId' = out.nextElectionId
               /\ elections' = out.elections
               /\ createdLog' = [createdLog EXCEPT ![out.id] =
                      Append(@, ElectionCreated(out.id, sender, name, endTime))]
          ELSE IF Len(name) # 0 /\ ~invalidEndTime(endTime) /\ ~invalidOptionCount(options)
          THEN /\ nextElectionId' = allocated.next
               /\ elections' = [elections EXCEPT
                      ![allocated.id] = [election EXCEPT !.options = pushed.options]]
               /\ UNCHANGED createdLog
          ELSE UNCHANGED <<nextElectionId, elections, createdLog>>
    /\ UNCHANGED <<now, tallies, hasVoted, ballots, finalizedAt>>

CreateElection(sender, name, options, endTime) ==
    /\ nextElectionId < MaxElections
    /\ LET out == CreateOutcome(sender, name, options, endTime)
       IN IF out.err = OK
          THEN /\ CallsMade < MaxCalls
               /\ nextElectionId' = out.nextElectionId
               /\ elections' = out.elections
               /\ createdLog' = [createdLog EXCEPT ![out.id] =
                      Append(@, ElectionCreated(out.id, sender, name, endTime))]
          ELSE UNCHANGED <<nextElectionId, elections, createdLog>>
    /\ UNCHANGED <<now, tallies, hasVoted, ballots, finalizedAt>>

\* ------------------------------------------------------------------ vote
\* Mutant: the check of _hasVoted (lines 88-90) is missing.
voteGuardNoAlreadyVoted(sender, electionId) ==
    IF now >= elections[electionId].endTime THEN "ElectionClosed"
    ELSE IF elections[electionId].finalized THEN "ElectionAlreadyFinalized"
    ELSE OK

\* Mutant: _hasVoted is checked before the closing time.
voteGuardVotedFirst(sender, electionId) ==
    IF hasVoted[electionId][sender] THEN "AlreadyVoted"
    ELSE IF now >= elections[electionId].endTime THEN "ElectionClosed"
    ELSE IF elections[electionId].finalized THEN "ElectionAlreadyFinalized"
    ELSE OK

\* Mutant: the check of the closing time (lines 82-84) is missing.
voteGuardNoClosedCheck(sender, electionId) ==
    IF elections[electionId].finalized THEN "ElectionAlreadyFinalized"
    ELSE IF hasVoted[electionId][sender] THEN "AlreadyVoted"
    ELSE OK

\* Mutant: a vote at exactly the closing time passes (> for >=).
voteGuardLate(sender, electionId) ==
    IF now > elections[electionId].endTime THEN "ElectionClosed"
    ELSE IF elections[electionId].finalized THEN "ElectionAlreadyFinalized"
    ELSE IF hasVoted[electionId][sender] THEN "AlreadyVoted"
    ELSE OK

\* Mutant: a ballot record in any election counts as AlreadyVoted.
voteGuardAnyElection(sender, electionId) ==
    IF now >= elections[electionId].endTime THEN "ElectionClosed"
    ELSE IF elections[electionId].finalized THEN "ElectionAlreadyFinalized"
    ELSE IF \E f \in DOMAIN hasVoted : hasVoted[f][sender] THEN "AlreadyVoted"
    ELSE OK

\* Lines 82-90: the checks of vote on an existing election, in order.
voteGuard(sender, electionId) ==
    IF now >= elections[electionId].endTime THEN "ElectionClosed"
    ELSE IF elections[electionId].finalized THEN "ElectionAlreadyFinalized"
    ELSE IF hasVoted[electionId][sender] THEN "AlreadyVoted"
    ELSE OK

\* Mutant: the choice is compared with i + 1.
TallyStepOffByOne(t, choice, i) ==
    LET one == asEuint32(1)
        zero == asEuint32(0)
        matches == eq(choice, asEuint32(i + 1))
        delta == select(matches, one, zero)
    IN [t EXCEPT ![i] = allowThis(add(t[i], delta))]

\* Mutant: only the accumulator of the chosen option is written.
TallyStepOnlyChosen(t, choice, i) ==
    IF choice.val = i THEN [t EXCEPT ![i] = allowThis(add(t[i], asEuint32(1)))]
    ELSE t

\* Lines 98-101: one turn of the loop, on option index i; t is
\* _tallies[electionId].
TallyStep(t, choice, i) ==
    LET one == asEuint32(1)
        zero == asEuint32(0)
        matches == eq(choice, asEuint32(i))
        delta == select(matches, one, zero)
    IN [t EXCEPT ![i] = allowThis(add(t[i], delta))]

\* Mutant: the loop stops after the option that matches the choice.
RECURSIVE TallyLoopStopsAtChoice(_, _, _, _)
TallyLoopStopsAtChoice(t, choice, i, optionCount) ==
    IF i >= optionCount THEN [err |-> OK, tallies |-> t]
    ELSE IF choice.val = i THEN [err |-> OK, tallies |-> TallyStep(t, choice, i)]
    ELSE TallyLoopStopsAtChoice(TallyStep(t, choice, i), choice, i + 1, optionCount)

\* Mutant: the loop starts at option index 1.
RECURSIVE TallyLoopSkipsFirst(_, _, _, _)
TallyLoopSkipsFirst(t, choice, i, optionCount) ==
    IF i >= optionCount THEN [err |-> OK, tallies |-> t]
    ELSE IF i = 0 THEN TallyLoopSkipsFirst(t, choice, 1, optionCount)
    ELSE TallyLoopSkipsFirst(TallyStep(t, choice, i), choice, i + 1, optionCount)

\* The loop of lines 97-102 from option index i on. FHE.add reverts on an
\* operand the contract holds no permission for.
RECURSIVE TallyLoop(_, _, _, _)
TallyLoop(t, choice, i, optionCount) ==
    IF i >= optionCount THEN [err |-> OK, tallies |-> t]
    ELSE IF isInitialized(t[i]) /\ ~senderAllowed(t[i])
        THEN [err |-> "SenderNotAllowed", tallies |-> t]
    ELSE TallyLoop(TallyStep(t, choice, i), choice, i + 1, optionCount)

\* Mutant: the record is written under the first election.
MarkVotedFirstElection(voted, electionId, sender) == [voted EXCEPT ![0][sender] = TRUE]

\* Line 104.
MarkVoted(voted, electionId, sender) == [voted EXCEPT ![electionId][sender] = TRUE]

\* FHE.fromExternal: the proof is verified, then the input is a ciphertext.
fromExternal(input) ==
    IF input.proofOk THEN [err |-> OK, value |-> asEuint32(input.val)]
    ELSE [err |-> "InvalidProof"]

\* Mutant: the encrypted input is imported before the checks.
VoteOutcomeProofFirst(sender, electionId, input) ==
    LET imported == fromExternal(input)
    IN IF imported.err # OK THEN [err |-> imported.err]
       ELSE IF requireElection(electionId) # OK THEN [err |-> "ElectionNotFound"]
       ELSE IF voteGuard(sender, electionId) # OK THEN [err |-> voteGuard(sender, electionId)]
       ELSE
         LET optionCount == Len(elections[electionId].options) % 256
             loop == TallyLoop(tallies[electionId], imported.value, 0, optionCount)
         IN IF loop.err # OK THEN [err |-> loop.err]
            ELSE [err |-> OK,
                  tallies |-> [tallies EXCEPT ![electionId] = loop.tallies],
                  hasVoted |-> MarkVoted(hasVoted, electionId, sender)]

\* Mutant: a choice that is no option index of the election is refused.
VoteOutcomeRangeChecked(sender, electionId, input) ==
    IF requireElection(electionId) # OK THEN [err |-> "ElectionNotFound"]
    ELSE IF voteGuard(sender, electionId) # OK THEN [err |-> voteGuard(sender, electionId)]
    ELSE
        LET imported == fromExternal(input)
        IN IF imported.err # OK THEN [err |-> imported.err]
           ELSE IF input.val >= Len(elections[electionId].options)
           THEN [err |-> "InvalidOption"]
           ELSE
             LET optionCount == Len(elections[electionId].options) % 256
                 loop == TallyLoop(tallies[electionId], imported.value, 0, optionCount)
             IN IF loop.err # OK THEN [err |-> loop.err]
                ELSE [err |-> OK,
                      tallies |-> [tallies EXCEPT ![electionId] = loop.tallies],
                      hasVoted |-> MarkVoted(hasVoted, electionId, sender)]

VoteOutcome(sender, electionId, input) ==
    IF requireElection(electionId) # OK THEN [err |-> "ElectionNotFound"]
    ELSE IF voteGuard(sender, electionId) # OK THEN [err |-> voteGuard(sender, electionId)]
    ELSE
        LET imported == fromExternal(input)
        IN IF imported.err # OK THEN [err |-> imported.err]
           ELSE
             LET optionCount == Len(elections[electionId].options) % 256
                 loop == TallyLoop(tallies[electionId], imported.value, 0, optionCount)
             IN IF loop.err # OK THEN [err |-> loop.err]
                ELSE [err |-> OK,
                      tallies |-> [tallies EXCEPT ![electionId] = loop.tallies],
                      hasVoted |-> MarkVoted(hasVoted, electionId, sender)]

\* Mutant: the accumulators are updated before the proof is verified, and
\* the update is kept when the proof fails.
VoteSpeculative(sender, electionId, input) ==
    /\ LET out == VoteOutcome(sender, electionId, input)
           optionCount == Len(elections[electionId].options) % 256
       IN IF out.err = OK
          THEN /\ CallsMade < MaxCalls
               /\ tallies' = EndOfTransaction(out.tallies)
               /\ hasVoted' = out.hasVoted
               /\ ballots' = [ballots EXCEPT ![electionId][sender] = Append(@, input.val)]
          ELSE IF out.err = "InvalidProof"
          THEN /\ tallies' = EndOfTransaction([tallies EXCEPT ![electionId] =
                      TallyLoop(@, asEuint32(input.val), 0, optionCount).tallies])
               /\ UNCHANGED <<hasVoted, ballots>>
          ELSE UNCHANGED <<tallies, hasVoted, ballots>>
    /\ UNCHANGED <<now, nextElectionId, elections, finalizedAt, createdLog>>

Vote(sender, electionId, input) ==
    /\ LET out == VoteOutcome(sender, electionId, input)
       IN IF out.err = OK
          THEN /\ CallsMade < MaxCalls
               /\ tallies' = EndOfTransaction(out.tallies)
               /\ hasVoted' = out.hasVoted
               /\ ballots' = [ballots EXCEPT ![electionId][sender] = Append(@, input.val)]
          ELSE UNCHANGED <<tallies, hasVoted, ballots>>
    /\ UNCHANGED <<now, nextElectionId, elections, finalizedAt, createdLog>>

\* ------------------------------------------------------ finalizeElection
\* Mutant: the check of the finalized flag (lines 115-117) is missing.
finalizeGuardNoFinalizedCheck(electionId) ==
    IF now < elections[electionId].endTime THEN "ElectionOngoing" ELSE OK

\* Mutant: the check of the closing time (lines 112-114) is missing.
finalizeGuardNoOngoingCheck(electionId) ==
    IF elections[electionId].finalized THEN "ElectionAlreadyFinalized" ELSE OK

\* Lines 112-117: the checks of finalizeElection on an existing election.
finalizeGuard(electionId) ==
    IF now < elections[electionId].endTime THEN "ElectionOngoing"
    ELSE IF elections[electionId].finalized THEN "ElectionAlreadyFinalized"
    ELSE OK

\* Mutant: the loop stops one option short (i < optionCount - 1).
RECURSIVE FinalizeLoopOneShort(_, _, _)
FinalizeLoopOneShort(t, i, optionCount) ==
    IF i >= optionCount - 1 THEN [err |-> OK, tallies |-> t]
    ELSE
        LET tally == IF isInitialized(t[i]) THEN t[i] ELSE asEuint32(0)
        IN FinalizeLoopOneShort([t EXCEPT ![i] = makePubliclyDecryptable(tally)],
                                i + 1, optionCount)

\* Mutant: an accumulator no vote has written is skipped.
RECURSIVE FinalizeLoopSkipUninitialized(_, _, _)
FinalizeLoopSkipUninitialized(t, i, optionCount) ==
    IF i >= optionCount THEN [err |-> OK, tallies |-> t]
    ELSE IF ~isInitialized(t[i]) THEN FinalizeLoopSkipUninitialized(t, i + 1, optionCount)
    ELSE FinalizeLoopSkipUninitialized([t EXCEPT ![i] = makePubliclyDecryptable(t[i])],
                                       i + 1, optionCount)

\* Mutant: finalization publishes a fresh encrypted zero for every option.
RECURSIVE FinalizeLoopResetsTally(_, _, _)
FinalizeLoopResetsTally(t, i, optionCount) ==
    IF i >= optionCount THEN [err |-> OK, tallies |-> t]
    ELSE FinalizeLoopResetsTally([t EXCEPT ![i] = makePubliclyDecryptable(asEuint32(0))],
                                 i + 1, optionCount)

\* The loop of lines 120-126 from option index i on.
\* FHE.makePubliclyDecryptable reverts on a ciphertext the contract holds no
\* permission for.
RECURSIVE FinalizeLoop(_, _, _)
FinalizeLoop(t, i, optionCount) ==
    IF i >= optionCount THEN [err |-> OK, tallies |-> t]
    ELSE
        LET tally == IF isInitialized(t[i]) THEN t[i] ELSE asEuint32(0)
        IN IF ~senderAllowed(tally) THEN [err |-> "SenderNotAllowed", tallies |-> t]
           ELSE FinalizeLoop([t EXCEPT ![i] = makePubliclyDecryptable(tally)],
                             i + 1, optionCount)

\* Mutant: finalization overwrites the closing time with the time of the call.
FinalizeOutcomeStampsEndTime(electionId) ==
    IF requireElection(electionId) # OK THEN [err |-> "ElectionNotFound"]
    ELSE IF finalizeGuard(electionId) # OK THEN [err |-> finalizeGuard(electionId)]
    ELSE
        LET optionCount == Len(elections[electionId].options) % 256
            loop == FinalizeLoop(tallies[electionId], 0, optionCount)
        IN IF loop.err # OK THEN [err |-> loop.err]
           ELSE [err |-> OK,
                 tallies |-> [tallies EXCEPT ![electionId] = loop.tallies],
                 elections |-> [elections EXCEPT ![electionId].finalized = TRUE,
                                                 ![electionId].endTime = now]]

FinalizeOutcome(electionId) ==
    IF requireElection(electionId) # OK THEN [err |-> "ElectionNotFound"]
    ELSE IF finalizeGuard(electionId) # OK THEN [err |-> finalizeGuard(electionId)]
    ELSE
        LET optionCount == Len(elections[electionId].options) % 256
            loop == FinalizeLoop(tallies[electionId], 0, optionCount)
        IN IF loop.err # OK THEN [err |-> loop.err]
           ELSE [err |-> OK,
                 tallies |-> [tallies EXCEPT ![electionId] = loop.tallies],
                 elections |-> [elections EXCEPT ![electionId].finalized = TRUE]]

\* Mutant: only the creator of the election may finalize it.
FinalizeElectionCreatorOnly(sender, electionId) ==
    /\ LET out == FinalizeOutcome(electionId)
       IN IF out.err = OK /\ sender = elections[electionId].creator
          THEN /\ CallsMade < MaxCalls
               /\ tallies' = EndOfTransaction(out.tallies)
               /\ elections' = out.elections
               /\ finalizedAt' = [finalizedAt EXCEPT ![electionId] = Append(@, now)]
          ELSE UNCHANGED <<tallies, elections, finalizedAt>>
    /\ UNCHANGED <<now, nextElectionId, hasVoted, ballots, createdLog>>

FinalizeElection(sender, electionId) ==
    /\ LET out == FinalizeOutcome(electionId)
       IN IF out.err = OK
          THEN /\ CallsMade < MaxCalls
               /\ tallies' = EndOfTransaction(out.tallies)
               /\ elections' = out.elections
               /\ finalizedAt' = [finalizedAt EXCEPT ![electionId] = Append(@, now)]
          ELSE UNCHANGED <<tallies, elections, finalizedAt>>
    /\ UNCHANGED <<now, nextElectionId, hasVoted, ballots, createdLog>>

\* ------------------------------------------------------------------ reads
getElectionCount == nextElectionId

getElection(electionId) ==
    IF requireElection(electionId) # OK THEN [err |-> "ElectionNotFound"]
    ELSE LET election == elections[electionId]
             optionCount == Len(election.options) % 256
         IN [err |-> OK,
             value |-> [name |-> election.name, endTime |-> election.endTime,
                        finalized |-> election.finalized, creator |-> election.creator,
                        optionCount |-> optionCount,
                        options |-> [i \in 1 .. optionCount |-> election.options[i]]]]

getEncryptedTally(electionId, optionIndex) ==
    IF requireValidOption(electionId, optionIndex) # OK
    THEN [err |-> requireValidOption(electionId, optionIndex)]
    ELSE [err |-> OK, value |-> tallies[electionId][optionIndex]]

hasAddressVoted(electionId, voter) ==
    IF requireElection(electionId) # OK THEN [err |-> "ElectionNotFound"]
    ELSE [err |-> OK, value |-> hasVoted[electionId][voter]]

isTallyPublic(electionId, optionIndex) ==
    IF requireValidOption(electionId, optionIndex) # OK
    THEN [err |-> requireValidOption(electionId, optionIndex)]
    ELSE [err |-> OK, value |-> isPubliclyDecryptable(tallies[electionId][optionIndex])]

\* The public decryption of a ciphertext: its plaintext, once it is publicly
\* decryptable.
publicDecrypt(c) == IF isPubliclyDecryptable(c) THEN c.val ELSE -1

\* ------------------------------------------------------------ environment
\* Mutant: the clock may also go back.
AdvanceTimeAnyDirection ==
    /\ \E t \in {now - 1, now + 1} \cap (0 .. MaxTime) : now' = t
    /\ UNCHANGED <<nextElectionId, elections, tallies, hasVoted, ballots, finalizedAt,
                   createdLog>>

\* A later block: block.timestamp never decreases.
AdvanceTime ==
    /\ now < MaxTime
    /\ now' = now + 1
    /\ UNCHANGED <<nextElectionId, elections, tallies, hasVoted, ballots, finalizedAt,
                   createdLog>>

Next ==
    \/ \E r \in CreateRequests : CreateElection(r.sender, r.name, r.options, r.endTime)
    \/ \E sender \in Addresses, electionId \in Ids, input \in ExternalInputs :
          Vote(sender, electionId, input)
    \/ \E sender \in Addresses, electionId \in Ids : FinalizeElection(sender, electionId)
    \/ AdvanceTime

Spec == Init /\ [][Next]_vars

\* ================================================================ claims
Exists(e) == requireElection(e) = OK
OptionCount(e) == Len(elections[e].options)
OptionsOf(e) == 0 .. (OptionCount(e) - 1)
Closed(e) == now >= elections[e].endTime
AnyInput == [val |-> 0, proofOk |-> TRUE]

\* The ballot records of election e.
BallotRecords(e) == {v \in Addresses : hasVoted[e][v]}

\* The accepted votes on e whose plaintext choice is c.
VotesFor(e, c) ==
    SumOver([v \in Addresses |->
                Cardinality({k \in 1 .. Len(ballots[e][v]) : ballots[e][v][k] = c})],
            Addresses)

\* The sum over the options of e of the plaintexts of its accumulators.
TallySum(e) == SumOver([i \in OptionsOf(e) |-> tallies[e][i].val], OptionsOf(e))

\* C1: at most one vote is ever accepted for each (election, identity) pair,
\* whatever the interleaving of vote calls.
C1_AtMostOneAcceptedVote ==
    \A e \in Ids, v \in Addresses : Len(ballots[e][v]) <= 1

\* Both identities have voted on an open election, and a further attempt by
\* either is rejected.
C1_Witness ==
    \E e \in Ids :
        /\ Exists(e) /\ ~Closed(e)
        /\ \A v \in Addresses :
             /\ Len(ballots[e][v]) = 1
             /\ \A input \in ExternalInputs : VoteOutcome(v, e, input).err = "AlreadyVoted"

\* C2: after finalizeElection the plaintext tallies of an election sum to the
\* number of its ballot records, whatever choices were submitted.
C2_SumEqualsBallots ==
    \A e \in Ids :
        elections[e].finalized => TallySum(e) = Cardinality(BallotRecords(e))

\* C3: for every existing election and every option index below its option
\* count, isTallyPublic is true exactly when the election is finalized.
C3_PublicIffFinalized ==
    \A e \in Ids :
        Exists(e) =>
            \A i \in OptionsOf(e) :
                /\ isTallyPublic(e, i).err = OK
                /\ isTallyPublic(e, i).value <=> elections[e].finalized

\* A finalized election with a ballot beside an unfinalized one with a ballot.
C3_Witness ==
    \E e1, e2 \in Ids :
        /\ Exists(e1) /\ elections[e1].finalized /\ BallotRecords(e1) # {}
        /\ \A i \in OptionsOf(e1) : isTallyPublic(e1, i).value
        /\ Exists(e2) /\ ~elections[e2].finalized /\ BallotRecords(e2) # {}
        /\ \A i \in OptionsOf(e2) : ~isTallyPublic(e2, i).value

\* C4: the finalized flag is false when an election is created and, once
\* true, no call makes it false again.
C4_FinalizedMonotonic ==
    [][\A e \in Ids :
         /\ elections[e].finalized => elections'[e].finalized
         /\ (elections[e].name = "" /\ elections'[e].name # "")
                => ~elections'[e].finalized]_vars

\* An election finalized at an earlier time, with another election created
\* and voted on.
C4_Witness ==
    \E e1, e2 \in Ids :
        /\ elections[e1].finalized
        /\ Len(finalizedAt[e1]) = 1 /\ finalizedAt[e1][1] < now
        /\ e2 # e1 /\ Exists(e2) /\ BallotRecords(e2) # {}

\* C5 as stated: once an identity's vote on an election was accepted, every
\* further vote call by it on that election fails with AlreadyVoted.
C5_SecondVoteAlreadyVoted ==
    \A e \in Ids, v \in Addresses, input \in ExternalInputs :
        Len(ballots[e][v]) >= 1 => VoteOutcome(v, e, input).err = "AlreadyVoted"

\* C5 (amended): once an identity's vote on an election was accepted, a
\* further vote call by it on that election fails with AlreadyVoted while
\* the current time is before the closing time, whatever the input and its
\* proof, and with ElectionClosed at or after the closing time.
C5_SecondVoteWhileOpen ==
    \A e \in Ids, v \in Addresses, input \in ExternalInputs :
        Len(ballots[e][v]) >= 1 =>
            VoteOutcome(v, e, input).err =
                IF Closed(e) THEN "ElectionClosed" ELSE "AlreadyVoted"

\* An identity has voted on an election that is still open: its next call
\* fails with AlreadyVoted, also with a proof that does not verify.
C5_Witness ==
    \E e \in Ids, v \in Addresses :
        /\ Len(ballots[e][v]) = 1 /\ ~Closed(e)
        /\ VoteOutcome(v, e, [val |-> 1, proofOk |-> FALSE]).err = "AlreadyVoted"
        /\ VoteOutcome(v, e, [val |-> 0, proofOk |-> TRUE]).err = "AlreadyVoted"

\* C6: hasAddressVoted(e, v) is true exactly when a vote by v on e was
\* accepted, and once true it is never reset.
C6_BallotRecordWriteOnce ==
    /\ [](\A e \in Ids, v \in Addresses :
            Exists(e) =>
                /\ hasAddressVoted(e, v).err = OK
                /\ hasAddressVoted(e, v).value <=> Len(ballots[e][v]) >= 1)
    /\ [][\A e \in Ids, v \in Addresses : hasVoted[e][v] => hasVoted'[e][v]]_vars

\* In a closed and finalized election one identity has a ballot record and
\* the other, whose calls can only fail, has none.
C6_Witness ==
    \E e \in Ids, v, w \in Addresses :
        /\ Exists(e) /\ elections[e].finalized
        /\ hasAddressVoted(e, v).value
        /\ ~hasAddressVoted(e, w).value
        /\ \A input \in ExternalInputs : VoteOutcome(w, e, input).err # OK

\* C7: after finalizeElection the accumulator of every option index i
\* decrypts to the number of accepted votes whose choice is i.
C7_TallyPerOption ==
    \A e \in Ids :
        elections[e].finalized =>
            \A i \in OptionsOf(e) :
                /\ getEncryptedTally(e, i).err = OK
                /\ publicDecrypt(getEncryptedTally(e, i).value) = VotesFor(e, i)

\* Options [Yes, No], both voters chose index 1, finalized: 0 and 2.
C7_Witness ==
    \E e \in Ids :
        /\ elections[e].options = <<"Yes", "No">>
        /\ elections[e].finalized
        /\ \A v \in Addresses : ballots[e][v] = <<1>>
        /\ publicDecrypt(getEncryptedTally(e, 0).value) = 0
        /\ publicDecrypt(getEncryptedTally(e, 1).value) = 2

\* C8: of the finalizeElection calls on an election at or after its closing
\* time exactly one succeeds: the first; every later one fails with
\* ElectionAlreadyFinalized.
C8_FinalizeOnce ==
    \A e \in Ids :
        /\ Len(finalizedAt[e]) <= 1
        /\ elections[e].finalized <=> Len(finalizedAt[e]) = 1
        /\ (Exists(e) /\ Closed(e)) =>
              FinalizeOutcome(e).err =
                  IF elections[e].finalized THEN "ElectionAlreadyFinalized" ELSE OK

\* A finalized election with a ballot, where a further call is refused, at a
\* time later than its finalization.
C8_Witness ==
    \E e \in Ids :
        /\ Len(finalizedAt[e]) = 1 /\ finalizedAt[e][1] < now
        /\ BallotRecords(e) # {}
        /\ FinalizeOutcome(e).err = "ElectionAlreadyFinalized"

\* C9: before the closing time of an existing election finalizeElection fails
\* with ElectionOngoing, and nothing of a finalization has taken effect: the
\* flag is false, no event was emitted and no accumulator is public.
C9_FinalizeBeforeClose ==
    \A e \in Ids :
        (Exists(e) /\ ~Closed(e)) =>
            /\ FinalizeOutcome(e).err = "ElectionOngoing"
            /\ ~elections[e].finalized
            /\ finalizedAt[e] = <<>>
            /\ \A i \in OptionsOf(e) : ~isPubliclyDecryptable(tallies[e][i])

\* An open election with a ballot, one time unit before it closes.
C9_Witness ==
    \E e \in Ids :
        /\ Exists(e) /\ now + 1 = elections[e].endTime
        /\ BallotRecords(e) # {}
        /\ FinalizeOutcome(e).err = "ElectionOngoing"

\* C10: at or after the closing time every vote fails with ElectionClosed, a
\* vote on a finalized election fails, and from then on no ballot record is
\* added and no accumulator changes its plaintext.
C10_VoteAfterClose ==
    /\ [](\A e \in Ids, v \in Addresses, input \in ExternalInputs :
            Exists(e) =>
                /\ Closed(e) => VoteOutcome(v, e, input).err = "ElectionClosed"
                /\ elections[e].finalized => VoteOutcome(v, e, input).err # OK)
    /\ [][\A e \in Ids :
            (Exists(e) /\ (Closed(e) \/ elections[e].finalized)) =>
                /\ hasVoted'[e] = hasVoted[e]
                /\ ballots'[e] = ballots[e]
                /\ \A i \in OptionIndexes : tallies'[e][i].val = tallies[e][i].val]_vars

\* Exactly at the closing time an identity that has not voted is refused, and
\* so is every call on another election that is finalized.
C10_Witness ==
    \E e1, e2 \in Ids, v \in Addresses :
        /\ Exists(e1) /\ now = elections[e1].endTime /\ ~elections[e1].finalized
        /\ ~hasVoted[e1][v]
        /\ VoteOutcome(v, e1, AnyInput).err = "ElectionClosed"
        /\ elections[e2].finalized
        /\ VoteOutcome(v, e2, AnyInput).err = "ElectionClosed"

\* The lifecycle state of an election, from the current time, the closing
\* time and the finalized flag.
Lifecycle(e) ==
    IF elections[e].finalized THEN "Finalized"
    ELSE IF now >= elections[e].endTime THEN "AwaitingFinalization"
    ELSE "Open"

LifecycleRank(state) ==
    CASE state = "Open" -> 0
      [] state = "AwaitingFinalization" -> 1
      [] state = "Finalized" -> 2

\* C11: a vote is accepted only in Open and a finalizeElection only in
\* AwaitingFinalization, which it moves to Finalized; no state accepts both;
\* and the lifecycle state of an election never moves back.
C11_LifecycleGating ==
    /\ [](\A e \in Ids :
            Exists(e) =>
                /\ \A v \in Addresses, input \in ExternalInputs :
                      VoteOutcome(v, e, input).err = OK => Lifecycle(e) = "Open"
                /\ FinalizeOutcome(e).err = OK => Lifecycle(e) = "AwaitingFinalization"
                /\ ~(/\ FinalizeOutcome(e).err = OK
                     /\ \E v \in Addresses, input \in ExternalInputs :
                           VoteOutcome(v, e, input).err = OK))
    /\ [][\A e \in Ids :
            (Exists(e) /\ elections'[e].name # "") =>
                /\ LifecycleRank(Lifecycle(e)') >= LifecycleRank(Lifecycle(e))
                /\ ballots'[e] # ballots[e] => Lifecycle(e) = "Open"
                /\ finalizedAt'[e] # finalizedAt[e] =>
                      /\ Lifecycle(e) = "AwaitingFinalization"
                      /\ Lifecycle(e)' = "Finalized"]_vars

\* One election Finalized with a ballot cast while it was Open, another
\* AwaitingFinalization, with a ballot too.
C11_Witness ==
    \E e1, e2 \in Ids :
        /\ Exists(e1) /\ Lifecycle(e1) = "Finalized" /\ BallotRecords(e1) # {}
        /\ Exists(e2) /\ Lifecycle(e2) = "AwaitingFinalization" /\ BallotRecords(e2) # {}
        /\ FinalizeOutcome(e2).err = OK

\* C12: finalizeElection on an election past its closing time with no
\* accepted vote succeeds, sets finalized and leaves every option's
\* accumulator publicly decryptable with plaintext 0.
C12_ZeroVoteFinalization ==
    \A e \in Ids :
        /\ (Exists(e) /\ Closed(e) /\ ~elections[e].finalized /\ BallotRecords(e) = {}) =>
              LET out == FinalizeOutcome(e)
              IN /\ out.err = OK
                 /\ out.elections[e].finalized
                 /\ \A i \in OptionsOf(e) :
                       /\ isInitialized(out.tallies[e][i])
                       /\ publicDecrypt(out.tallies[e][i]) = 0
        /\ (elections[e].finalized /\ BallotRecords(e) = {}) =>
              \A i \in OptionsOf(e) :
                  /\ isTallyPublic(e, i).value
                  /\ publicDecrypt(getEncryptedTally(e, i).value) = 0

\* A finalized election of three options that never received a vote.
C12_Witness ==
    \E e \in Ids :
        /\ elections[e].finalized /\ OptionCount(e) = 3
        /\ \A v \in Addresses : ballots[e][v] = <<>>
        /\ \A i \in OptionsOf(e) : publicDecrypt(getEncryptedTally(e, i).value) = 0

\* C13: on an existing, not yet finalized election at or after its closing
\* time, finalizeElection succeeds for every caller, and the step that
\* finalizes has the one effect that does not depend on the caller.
C13_PermissionlessFinalize ==
    /\ [](\A e \in Ids, sender \in Addresses :
            (Exists(e) /\ Closed(e) /\ ~elections[e].finalized /\ CallsMade < MaxCalls) =>
                ENABLED (FinalizeElection(sender, e) /\ elections'[e].finalized))
    /\ [][\A e \in Ids :
            (~elections[e].finalized /\ elections'[e].finalized) =>
                /\ elections' = FinalizeOutcome(e).elections
                /\ tallies' = EndOfTransaction(FinalizeOutcome(e).tallies)]_vars

\* The creator of a closed election has voted on it; the other identity has
\* created nothing and voted nowhere, and its finalizeElection succeeds.
C13_Witness ==
    \E e \in Ids, creator, stranger \in Addresses :
        /\ Exists(e) /\ Closed(e) /\ ~elections[e].finalized
        /\ elections[e].creator = creator /\ hasVoted[e][creator]
        /\ stranger # creator
        /\ \A x \in Ids : elections[x].creator # stranger /\ ~hasVoted[x][stranger]
        /\ ENABLED (FinalizeElection(stranger, e) /\ elections'[e].finalized)
        /\ ENABLED (FinalizeElection(creator, e) /\ elections'[e].finalized)

\* C14: a vote call that fails changes nothing: no step of a failing vote
\* changes the state, the ballot records are exactly the accepted votes, and
\* every accumulator counts the accepted votes for its index and no other
\* attempt.
C14_FailedVoteNoEffect ==
    /\ [](\A e \in Ids :
            Exists(e) =>
                /\ BallotRecords(e) = {v \in Addresses : Len(ballots[e][v]) = 1}
                /\ \A i \in OptionsOf(e) : tallies[e][i].val = VotesFor(e, i))
    /\ [][vars' # vars =>
            \A sender \in Addresses, e \in Ids, input \in ExternalInputs :
                (VoteOutcome(sender, e, input).err # OK /\ Vote(sender, e, input))
                    => UNCHANGED vars]_vars

\* A finalized election whose only ballot chose index 0: a further vote of
\* that voter for index 1 is refused, and the tallies decrypt to 1 and 0.
C14_Witness ==
    \E e \in Ids, v \in Addresses :
        /\ elections[e].finalized /\ OptionCount(e) = 2
        /\ ballots[e][v] = <<0>> /\ BallotRecords(e) = {v}
        /\ VoteOutcome(v, e, [val |-> 1, proofOk |-> TRUE]).err # OK
        /\ publicDecrypt(getEncryptedTally(e, 0).value) = 1
        /\ publicDecrypt(getEncryptedTally(e, 1).value) = 0

\* The outcome of the createElection call r.
OutcomeOf(r) == CreateOutcome(r.sender, r.name, r.options, r.endTime)
CountInRange(options) == Len(options) >= MIN_OPTIONS /\ Len(options) <= MAX_OPTIONS

\* What every successful creation stores for its options, and what every
\* stored election shows.
StoredOptionsMatch ==
    /\ \A r \in CreateInputs :
          OutcomeOf(r).err = OK =>
              /\ CountInRange(r.options)
              /\ OutcomeOf(r).elections[OutcomeOf(r).id].options = r.options
    /\ \A e \in Ids :
          Exists(e) =>
              /\ CountInRange(elections[e].options)
              /\ getElection(e).value.optionCount = Len(elections[e].options)
              /\ \E r \in CreateRequests :
                    /\ elections[e].options = r.options
                    /\ getElection(e).value.options = r.options

\* C15 as stated: createElection with a number of labels outside [2, 8] is
\* rejected with InvalidOptionCount, and a successful creation stores the
\* option list and count of its input, the count in [2, 8].
C15_OutOfRangeInvalidOptionCount ==
    /\ \A r \in CreateInputs :
          ~CountInRange(r.options) => OutcomeOf(r).err = "InvalidOptionCount"
    /\ StoredOptionsMatch

\* C15 (amended): createElection with a number of labels outside [2, 8] is
\* rejected: with InvalidOptionCount when the name is not empty and the
\* closing time is after the current time, with EmptyOption when the name is
\* empty, and else with InvalidEndTime; a successful creation stores the
\* option list and count of its input, the count in [2, 8].
C15_OutOfRangeRejected ==
    /\ \A r \in CreateInputs :
          ~CountInRange(r.options) =>
              OutcomeOf(r).err =
                  IF r.name = "" THEN "EmptyOption"
                  ELSE IF r.endTime <= now THEN "InvalidEndTime"
                  ELSE "InvalidOptionCount"
    /\ StoredOptionsMatch

\* A stored election of three options; lists of 0, 1 and 9 labels with a
\* name and a closing time in the future are rejected with InvalidOptionCount.
C15_Witness ==
    \E e \in Ids :
        /\ Exists(e) /\ elections[e].options = <<"A", "B", "C">>
        /\ getElection(e).value.optionCount = 3
        /\ \A options \in {<<>>, <<"Yes">>,
                             <<"1", "2", "3", "4", "5", "6", "7", "8", "9">>} :
              CreateOutcome("alice", "Poll", options, now + 1).err = "InvalidOptionCount"

\* A createElection call whose name and labels are well-formed.
LabelsWellFormed(r) ==
    /\ r.name # ""
    /\ CountInRange(r.options)
    /\ \A k \in 1 .. Len(r.options) : r.options[k] # ""

\* C16 as stated: createElection with a closing time at or before the
\* current time fails with InvalidEndTime, and with the closing time
\* now + 1 and otherwise valid inputs it succeeds.
C16_EndTimeNotFuture ==
    \A r \in CreateInputs :
        /\ r.endTime <= now => OutcomeOf(r).err = "InvalidEndTime"
        /\ (r.endTime = now + 1 /\ LabelsWellFormed(r)) => OutcomeOf(r).err = OK

\* C16 (amended): createElection with a non-empty name and a closing time at
\* or before the current time fails with InvalidEndTime (with an empty name
\* it fails with EmptyOption), and with the closing time now + 1 and
\* otherwise valid inputs it succeeds.
C16_EndTimeNotFutureNamed ==
    \A r \in CreateInputs :
        /\ r.endTime <= now =>
              OutcomeOf(r).err = IF r.name = "" THEN "EmptyOption" ELSE "InvalidEndTime"
        /\ (r.endTime = now + 1 /\ LabelsWellFormed(r)) => OutcomeOf(r).err = OK

\* At time 0 an election closing at 1 = now + 1 has been created; a further
\* creation closing at the current time is refused, one closing at now + 1
\* is not.
C16_Witness ==
    /\ now = 0
    /\ \E e \in Ids : Exists(e) /\ elections[e].endTime = now + 1
    /\ CreateOutcome("bob", "Poll", <<"Yes", "No">>, now).err = "InvalidEndTime"
    /\ CreateOutcome("bob", "Poll", <<"Yes", "No">>, now + 1).err = OK

HasEmptyLabel(options) == \E k \in 1 .. Len(options) : options[k] = ""

\* C17 as stated: createElection fails with EmptyOption whenever the name
\* is empty or any option label, at any position, is empty.
C17_EmptyNameOrLabel ==
    \A r \in CreateInputs :
        (r.name = "" \/ HasEmptyLabel(r.options)) => OutcomeOf(r).err = "EmptyOption"

\* C17 (amended): createElection fails with EmptyOption whenever the name is
\* empty; when the name is not empty and some option label, at any
\* position, is empty, it fails with InvalidEndTime if the closing time is
\* not after the current time, else with InvalidOptionCount if the number
\* of labels is outside [2, 8], else with EmptyOption.
C17_EmptyNameOrLabelOrdered ==
    \A r \in CreateInputs :
        /\ r.name = "" => OutcomeOf(r).err = "EmptyOption"
        /\ (r.name # "" /\ HasEmptyLabel(r.options)) =>
              OutcomeOf(r).err =
                  IF r.endTime <= now THEN "InvalidEndTime"
                  ELSE IF ~CountInRange(r.options) THEN "InvalidOptionCount"
                  ELSE "EmptyOption"

\* With one election stored, creations with an empty name, an empty first
\* label and an empty middle label are each refused with EmptyOption.
C17_Witness ==
    /\ nextElectionId = 1
    /\ CreateOutcome("bob", "", <<"Yes", "No">>, now + 1).err = "EmptyOption"
    /\ CreateOutcome("bob", "Poll", <<"", "No">>, now + 1).err = "EmptyOption"
    /\ CreateOutcome("bob", "Poll", <<"A", "", "C">>, now + 1).err = "EmptyOption"

\* The identifiers not yet allocated hold no election, accumulator or
\* ballot record.
UnusedSlotsEmpty ==
    \A e \in Ids :
        e >= nextElectionId =>
            /\ elections[e] = EmptyElection
            /\ \A i \in OptionIndexes : tallies[e][i] = Uninitialized
            /\ \A v \in Addresses : ~hasVoted[e][v]

\* C18: a failed createElection changes nothing: the election count, every
\* election's metadata, the ballot records and the accumulators are as
\* before and no identifier is consumed, also when the failure is an empty
\* label found after the identifier, header and earlier labels were written.
C18_FailedCreateNoEffect ==
    /\ [](UnusedSlotsEmpty)
    /\ [][vars' # vars =>
            \A r \in CreateRequests :
                (OutcomeOf(r).err # OK
                 /\ CreateElection(r.sender, r.name, r.options, r.endTime))
                    => UNCHANGED vars]_vars

\* One election with a ballot is stored, and a creation whose second label
\* is empty (first label already pushed) is refused.
C18_Witness ==
    /\ nextElectionId = 1
    /\ \E v \in Addresses : hasVoted[0][v]
    /\ PushOptions(<<>>, <<"A", "", "C">>, 1) = [err |-> "EmptyOption", options |-> <<"A">>]
    /\ CreateOutcome("bob", "Budget", <<"A", "", "C">>, now + 1).err = "EmptyOption"
    /\ elections[1] = EmptyElection

\* C19: every stored election has a non-empty name and between 2 and 8
\* option labels, each non-empty, and the step that creates an election
\* stores a closing time strictly greater than the time of that step.
C19_DataModel ==
    /\ [](\A e \in Ids :
            e < nextElectionId =>
                /\ elections[e].name # ""
                /\ CountInRange(elections[e].options)
                /\ ~HasEmptyLabel(elections[e].options)
                /\ elections[e].endTime > 0)
    /\ [][\A e \in Ids :
            (e = nextElectionId /\ nextElectionId' = nextElectionId + 1)
                => elections'[e].endTime > now]_vars

\* Two elections are stored, one of them with three labels, created at
\* time 0 with closing times 1 and 2.
C19_Witness ==
    /\ nextElectionId = 2
    /\ \E e \in Ids : e < nextElectionId /\ elections[e].options = <<"A", "B", "C">>
    /\ \A e \in Ids : e < nextElectionId => elections[e].endTime > now

\* C20: a successful createElection returns the election count before the
\* call and raises getElectionCount by exactly 1; the stored elections are
\* exactly the identifiers 0 .. getElectionCount - 1, the count never
\* decreases, each step raises it by at most 1, no step rewrites the name,
\* creator, closing time or labels of a stored election, and the step that
\* raises the count stores the new election under the previous count,
\* leaving the others as they were.
C20_IdentifierAssignment ==
    /\ [](/\ \A r \in CreateRequests :
               OutcomeOf(r).err = OK =>
                   /\ OutcomeOf(r).id = getElectionCount
                   /\ OutcomeOf(r).nextElectionId = getElectionCount + 1
          /\ \A e \in Ids : Exists(e) <=> e < getElectionCount
          /\ Cardinality({e \in Ids : Exists(e)}) = getElectionCount)
    /\ [][/\ nextElectionId' \in {nextElectionId, nextElectionId + 1}
          /\ \A e \in Ids :
                Exists(e) =>
                    /\ elections'[e].name = elections[e].name
                    /\ elections'[e].creator = elections[e].creator
                    /\ elections'[e].endTime = elections[e].endTime
                    /\ elections'[e].options = elections[e].options
          /\ nextElectionId' = nextElectionId + 1 =>
                /\ ~Exists(nextElectionId)
                /\ elections'[nextElectionId].name # ""
                /\ \A e \in Ids : e # nextElectionId => elections'[e] = elections[e]]_vars

\* Two creations have succeeded: identifiers 0 and 1 are stored, in that
\* order, and the count is 2.
C20_Witness ==
    /\ getElectionCount = 2
    /\ elections[0].name = "Poll" /\ elections[1].name = "Budget"
    /\ ~Exists(2)

\* What getElection returns for e, without the finalized flag.
Metadata(e) ==
    LET v == getElection(e).value
    IN [name |-> v.name, endTime |-> v.endTime, creator |-> v.creator,
        optionCount |-> v.optionCount, options |-> v.options]

\* What getElection returns, without the finalized flag, for the election
\* created from the call r.
MetadataSupplied(r) ==
    [name |-> r.name, endTime |-> r.endTime, creator |-> r.sender,
     optionCount |-> Len(r.options), options |-> r.options]

\* C21: the step that creates an election makes getElection return the
\* name, closing time, creator, option count and ordered labels supplied,
\* with finalized false; every later step leaves the election in place and
\* these fields as they are, and the finalized flag is the only field of
\* getElection's answer that a step changes.
C21_MetadataImmutable ==
    [][/\ \A id \in Ids :
             (id = nextElectionId /\ nextElectionId' = nextElectionId + 1) =>
                 \E r \in CreateRequests :
                     /\ Metadata(id)' = MetadataSupplied(r)
                     /\ ~getElection(id).value.finalized'
       /\ elections' # elections =>
             \A e \in Ids :
                 Exists(e) =>
                     /\ getElection(e).err' = OK
                     /\ Metadata(e)' = Metadata(e)]_vars

\* The first election has been voted on and finalized after its closing
\* time, and a second election was created; getElection still returns what
\* was supplied for both.
C21_Witness ==
    /\ nextElectionId = 2 /\ now = 2
    /\ getElection(0).value.finalized /\ \E v \in Addresses : hasVoted[0][v]
    /\ Metadata(0) = MetadataSupplied(
           [sender |-> "alice", name |-> "Poll", options |-> <<"Yes", "No">>, endTime |-> 1])
    /\ Metadata(1) = MetadataSupplied(
           [sender |-> "bob", name |-> "Budget", options |-> <<"A", "B", "C">>, endTime |-> 2])

\* C22: once an election is finalized no step changes any of its
\* accumulators (plaintext, initialization, permission or public flag) or
\* its ballot records; an accumulator's plaintext changes only in a step
\* that records a vote on an election that is not finalized, and no step
\* lowers a plaintext or makes an initialized accumulator uninitialized.
C22_FrozenByFinalization ==
    [][(tallies' # tallies \/ hasVoted' # hasVoted \/ ballots' # ballots) =>
       \A e \in Ids :
          /\ elections[e].finalized =>
                /\ tallies'[e] = tallies[e]
                /\ hasVoted'[e] = hasVoted[e]
                /\ ballots'[e] = ballots[e]
          /\ \A i \in OptionIndexes :
                /\ tallies'[e][i].val >= tallies[e][i].val
                /\ tallies[e][i].init => tallies'[e][i].init
                /\ tallies'[e][i].val # tallies[e][i].val =>
                      /\ ~elections[e].finalized /\ ~elections'[e].finalized
                      /\ \E v \in Addresses : ~hasVoted[e][v] /\ hasVoted'[e][v]]_vars

\* A finalized election whose accumulators hold a vote and are public,
\* while votes are still being taken on another election.
C22_Witness ==
    \E e, f \in Ids :
        /\ e # f
        /\ elections[e].finalized /\ TallySum(e) = 1
        /\ \A i \in OptionsOf(e) : isTallyPublic(e, i).value
        /\ Exists(f) /\ ~elections[f].finalized /\ TallySum(f) = 1

\* The option indexes a reader may pass: every stored index and one more.
ReadIndexes == 0 .. MAX_OPTIONS

\* The elections that were created.
Created(e) == e < getElectionCount

\* The error of the reads that take an election and an option index.
IndexedReadError(e, i) ==
    IF ~Created(e) THEN "ElectionNotFound"
    ELSE IF i >= OptionCount(e) THEN "InvalidOption"
    ELSE OK

\* C23: getElectionCount always answers; getElection and hasAddressVoted
\* fail, with ElectionNotFound, exactly on identifiers of no created
\* election; getEncryptedTally and isTallyPublic fail with ElectionNotFound
\* exactly on those, and on a created election with InvalidOption exactly
\* when optionIndex >= option count; the values read are those stored.
C23_ReadErrors ==
    /\ getElectionCount \in Nat
    /\ \A e \in Ids :
          /\ getElection(e).err = IF Created(e) THEN OK ELSE "ElectionNotFound"
          /\ \A v \in Addresses :
                /\ hasAddressVoted(e, v).err = IF Created(e) THEN OK ELSE "ElectionNotFound"
                /\ Created(e) => hasAddressVoted(e, v).value = hasVoted[e][v]
          /\ \A i \in ReadIndexes :
                /\ getEncryptedTally(e, i).err = IndexedReadError(e, i)
                /\ isTallyPublic(e, i).err = IndexedReadError(e, i)
                /\ IndexedReadError(e, i) = OK =>
                      /\ getEncryptedTally(e, i).value = tallies[e][i]
                      /\ isTallyPublic(e, i).value = tallies[e][i].pub

\* With a two-option and a three-option election created and a third
\* identifier unused: index 2 is refused on the first and read on the
\* second, and every read of the unused identifier is refused.
C23_Witness ==
    /\ getElectionCount = 2
    /\ OptionCount(0) = 2 /\ OptionCount(1) = 3
    /\ \E v \in Addresses : hasAddressVoted(0, v).value
    /\ getEncryptedTally(0, 2).err = "InvalidOption"
    /\ isTallyPublic(1, 2).err = OK
    /\ isTallyPublic(1, 3).err = "InvalidOption"
    /\ getElection(2).err = "ElectionNotFound"
    /\ getEncryptedTally(2, 0).err = "ElectionNotFound"

\* What an observer without the decryption key sees of a ciphertext: that it
\* is there, who may compute on it and whether it is public.
Opaque(c) == [init |-> c.init, acl |-> c.acl, pub |-> c.pub]

\* The observable part of the accumulators.
Shape(t) == [e \in DOMAIN t |-> [i \in DOMAIN t[e] |-> Opaque(t[e][i])]]

\* What an observer sees of the vote call: its outcome and, when accepted,
\* the ballot records, the event and the observable part of the
\* accumulators it leaves.
Observation(sender, electionId, input) ==
    LET out == VoteOutcome(sender, electionId, input)
    IN IF out.err # OK THEN [err |-> out.err]
       ELSE [err |-> OK,
             hasVoted |-> out.hasVoted,
             event |-> VoteSubmitted(electionId, sender),
             shape |-> Shape(EndOfTransaction(out.tallies)),
             allowed |-> {i \in OptionIndexes :
                             Opaque(out.tallies[electionId][i]).acl = "persistent"}]

\* C24: two votes by the same caller on the same election in the same
\* state that differ only in the encrypted choice are observed alike: same
\* outcome, same ballot records, same event, and the same accumulators, all
\* those of the election's options, holding ciphertexts the contract may
\* compute on.
C24_VoteSecrecy ==
    \A sender \in Addresses, e \in Ids :
        LET seen == {Observation(sender, e, [val |-> c, proofOk |-> TRUE]) : c \in Choices}
        IN /\ \A o1 \in seen, o2 \in seen : o1 = o2
           /\ \A o \in seen : o.err = OK => o.allowed = OptionsOf(e)

\* After one accepted vote, a second voter's votes for option 0 and for
\* option 1 are both accepted and leave different plaintexts.
C24_Witness ==
    \E e \in Ids :
        /\ hasVoted[e]["alice"] /\ ~hasVoted[e]["bob"]
        /\ LET o0 == VoteOutcome("bob", e, [val |-> 0, proofOk |-> TRUE])
               o1 == VoteOutcome("bob", e, [val |-> 1, proofOk |-> TRUE])
           IN /\ o0.err = OK /\ o1.err = OK
              /\ o0.tallies[e][0].val # o1.tallies[e][0].val

\* Everything stored for election e.
ElectionState(e) ==
    [election |-> elections[e], tallies |-> tallies[e], hasVoted |-> hasVoted[e]]

\* The outcomes of every vote and finalizeElection call on election e.
OutcomesOn(e) ==
    [vote |-> [p \in Addresses \X ExternalInputs |-> VoteOutcome(p[1], e, p[2]).err],
     finalize |-> FinalizeOutcome(e).err]

\* C25: the step of a vote or finalizeElection on election e (the step
\* that emits its VoteSubmitted or ElectionFinalized event; a failed call
\* is no step) leaves everything stored for every other election, and the
\* outcome of every vote and finalizeElection call on every other
\* election, as they were; an address
\* with a ballot record in e whose vote on another open election f it has
\* no record in is accepted; and finalizeElection on a closed, unfinalized
\* election succeeds whatever the state of the others.
C25_CrossElectionIsolation ==
    /\ [](\A e \in Ids, f \in Ids, v \in Addresses :
            /\ (e # f /\ hasVoted[e][v] /\ Exists(f) /\ ~Closed(f) /\ ~hasVoted[f][v])
                  => VoteOutcome(v, f, AnyInput).err = OK
            /\ (Exists(f) /\ Closed(f) /\ ~elections[f].finalized)
                  => FinalizeOutcome(f).err = OK)
    /\ [][(ballots' # ballots \/ finalizedAt' # finalizedAt) =>
            \A e \in Ids :
                (ballots'[e] # ballots[e] \/ finalizedAt'[e] # finalizedAt[e]) =>
                    \A f \in Ids \ {e} :
                        /\ ElectionState(f)' = ElectionState(f)
                        /\ OutcomesOn(f)' = OutcomesOn(f)]_vars

\* alice has voted in both elections, and the first is finalized while the
\* second is still open and takes bob's vote.
C25_Witness ==
    /\ hasVoted[0]["alice"] /\ hasVoted[1]["alice"]
    /\ elections[0].finalized
    /\ ~Closed(1)
    /\ VoteOutcome("bob", 1, AnyInput).err = OK
    /\ FinalizeOutcome(1).err = "ElectionOngoing"

\* The number of events emitted so far.
EventCount ==
    SumOver([e \in Ids |-> Len(createdLog[e])], Ids)
    + SumOver([p \in Ids \X Addresses |-> Len(ballots[p[1]][p[2]])], Ids \X Addresses)
    + SumOver([e \in Ids |-> Len(finalizedAt[e])], Ids)

\* The events a step emits.
NewEvents ==
    {createdLog'[e][Len(createdLog'[e])] :
        e \in {x \in Ids : Len(createdLog'[x]) > Len(createdLog[x])}}
    \cup {VoteSubmitted(p[1], p[2]) :
        p \in {q \in Ids \X Addresses : Len(ballots'[q[1]][q[2]]) > Len(ballots[q[1]][q[2]])}}
    \cup {ElectionFinalized(e, finalizedAt'[e][Len(finalizedAt'[e])]) :
        e \in {x \in Ids : Len(finalizedAt'[x]) > Len(finalizedAt[x])}}

\* The event ev has a timestamp parameter (uint64) whose value is t.
CarriesTimestamp(ev, t) ==
    \E f \in DOMAIN ev \cap {"endTime", "finalizedAt"} : ev[f] = t

\* A step that emits exactly the event ev.
EmitsOnly(ev) == NewEvents = {ev} /\ EventCount' = EventCount + 1

\* C26 as stated: the step of a successful createElection, vote or
\* finalizeElection emits exactly one event, of the matching kind, with the
\* identifiers of the call and the timestamp of the call; a step that is
\* none of these emits no event.
C26_AuditEvents ==
    [][/\ \A id \in Ids :
            (id = nextElectionId /\ nextElectionId' = id + 1) =>
                \E ev \in NewEvents :
                    /\ EmitsOnly(ev)
                    /\ ev.kind = "ElectionCreated" /\ ev.electionId = id
                    /\ ev.creator = elections'[id].creator
                    /\ CarriesTimestamp(ev, now)
       /\ \A e \in Ids, v \in Addresses :
            (~hasVoted[e][v] /\ hasVoted'[e][v]) =>
                \E ev \in NewEvents :
                    /\ EmitsOnly(ev)
                    /\ ev.kind = "VoteSubmitted" /\ ev.electionId = e /\ ev.voter = v
                    /\ CarriesTimestamp(ev, now)
       /\ \A e \in Ids :
            (~elections[e].finalized /\ elections'[e].finalized) =>
                \E ev \in NewEvents :
                    /\ EmitsOnly(ev)
                    /\ ev.kind = "ElectionFinalized" /\ ev.electionId = e
                    /\ CarriesTimestamp(ev, now)
       /\ storage' = storage => (NewEvents = {} /\ EventCount' = EventCount)]_vars

\* C27: vote reports the first failing check in the order ElectionNotFound,
\* ElectionClosed, ElectionAlreadyFinalized, AlreadyVoted, InvalidProof, and
\* is accepted when none fails.
C27_VoteCheckOrder ==
    \A sender \in Addresses, e \in Ids, input \in ExternalInputs :
        VoteOutcome(sender, e, input).err =
            IF ~Created(e) THEN "ElectionNotFound"
            ELSE IF now >= elections[e].endTime THEN "ElectionClosed"
            ELSE IF elections[e].finalized THEN "ElectionAlreadyFinalized"
            ELSE IF hasVoted[e][sender] THEN "AlreadyVoted"
            ELSE IF ~input.proofOk THEN "InvalidProof"
            ELSE OK

\* alice has voted in a closed and in an open election: her next vote on
\* the first is refused with ElectionClosed, her vote with an invalid proof
\* on the second with AlreadyVoted, and bob's with InvalidProof.
C27_Witness ==
    \E e, f \in Ids :
        /\ hasVoted[e]["alice"] /\ Closed(e)
        /\ hasVoted[f]["alice"] /\ ~Closed(f) /\ ~hasVoted[f]["bob"]
        /\ VoteOutcome("alice", e, AnyInput).err = "ElectionClosed"
        /\ VoteOutcome("alice", f, [val |-> 1, proofOk |-> FALSE]).err = "AlreadyVoted"
        /\ VoteOutcome("bob", f, [val |-> 1, proofOk |-> FALSE]).err = "InvalidProof"

\* C28: a finalized election is past its closing time, so every vote on it
\* is refused with ElectionClosed, and no vote call at all is refused with
\* ElectionAlreadyFinalized.
C28_AlreadyFinalizedUnreachable ==
    /\ \A e \in Ids :
          elections[e].finalized =>
              /\ now >= elections[e].endTime
              /\ \A sender \in Addresses, input \in ExternalInputs :
                    VoteOutcome(sender, e, input).err = "ElectionClosed"
    /\ \A e \in Ids, sender \in Addresses, input \in ExternalInputs :
          VoteOutcome(sender, e, input).err # "ElectionAlreadyFinalized"

\* An election finalized at an earlier time, with an address that has not
\* voted in it: its vote is refused with ElectionClosed.
C28_Witness ==
    \E e \in Ids, v \in Addresses :
        /\ elections[e].finalized /\ finalizedAt[e] = <<elections[e].endTime>>
        /\ now > elections[e].endTime
        /\ ~hasVoted[e][v]
        /\ VoteOutcome(v, e, AnyInput).err = "ElectionClosed"

\* C29: an accepted vote with plaintext c stores, for every option index i
\* of the election, the sum of the accumulator and an encrypted 1 (i = c) or
\* 0 (i # c), with the contract's permission; it touches no other index and
\* no other election and writes the caller's ballot record; and wherever a
\* ballot record is stored, every option's accumulator has been written.
C29_EveryOptionUpdated ==
    /\ \A sender \in Addresses, e \in Ids, c \in Choices :
          LET out == VoteOutcome(sender, e, [val |-> c, proofOk |-> TRUE])
          IN out.err = OK =>
               /\ \A i \in OptionsOf(e) :
                     out.tallies[e][i] =
                         allowThis(add(tallies[e][i], asEuint32(IF i = c THEN 1 ELSE 0)))
               /\ \A i \in OptionIndexes \ OptionsOf(e) : out.tallies[e][i] = tallies[e][i]
               /\ \A f \in Ids \ {e} : out.tallies[f] = tallies[f]
               /\ out.hasVoted = [hasVoted EXCEPT ![e][sender] = TRUE]
    /\ \A e \in Ids :
          BallotRecords(e) # {} =>
              /\ \A i \in OptionsOf(e) : tallies[e][i].init /\ tallies[e][i].acl = "persistent"
              /\ \A i \in OptionIndexes \ OptionsOf(e) : tallies[e][i] = Uninitialized

\* A three-option election after one accepted vote for option 0: all three
\* accumulators are written, with plaintexts 1, 0 and 0.
C29_Witness ==
    \E e \in Ids :
        /\ OptionCount(e) = 3 /\ ~elections[e].finalized
        /\ \E v \in Addresses : BallotRecords(e) = {v} /\ ballots[e][v] = <<0>>
        /\ \A i \in OptionsOf(e) : tallies[e][i].init
        /\ tallies[e][0].val = 1 /\ tallies[e][1].val = 0 /\ tallies[e][2].val = 0
        /\ ~tallies[e][3].init

\* C30: an identifier passes _requireElection exactly when it is below
\* getElectionCount, and each of getElection, hasAddressVoted,
\* getEncryptedTally, isTallyPublic, vote and finalizeElection fails with
\* ElectionNotFound exactly on the identifiers at or above it.
C30_ExistenceCheckSound ==
    \A e \in Ids :
        /\ (requireElection(e) = OK) <=> (e < getElectionCount)
        /\ (getElection(e).err = "ElectionNotFound") <=> (e >= getElectionCount)
        /\ (FinalizeOutcome(e).err = "ElectionNotFound") <=> (e >= getElectionCount)
        /\ \A v \in Addresses :
              /\ (hasAddressVoted(e, v).err = "ElectionNotFound") <=> (e >= getElectionCount)
              /\ \A input \in ExternalInputs :
                    (VoteOutcome(v, e, input).err = "ElectionNotFound")
                        <=> (e >= getElectionCount)
        /\ \A i \in ReadIndexes :
              /\ (getEncryptedTally(e, i).err = "ElectionNotFound") <=> (e >= getElectionCount)
              /\ (isTallyPublic(e, i).err = "ElectionNotFound") <=> (e >= getElectionCount)

\* One election created, voted on and finalized, the next identifier not
\* yet allocated: calls on 0 pass the existence check, calls on 1 do not.
C30_Witness ==
    /\ getElectionCount = 1
    /\ elections[0].finalized /\ BallotRecords(0) # {}
    /\ requireElection(0) = OK /\ requireElection(1) = "ElectionNotFound"
    /\ VoteOutcome("alice", 0, AnyInput).err = "ElectionClosed"
    /\ VoteOutcome("alice", 1, AnyInput).err = "ElectionNotFound"
    /\ FinalizeOutcome(1).err = "ElectionNotFound"

\* The accepted votes on e whose plaintext is an option index of e.
ValidBallots(e) ==
    \A v \in Addresses :
        \A k \in 1 .. Len(ballots[e][v]) : ballots[e][v][k] < OptionCount(e)

\* C31: a vote that passes the checks of vote with a valid proof and a
\* choice >= option count is accepted, writes the caller's ballot record
\* and leaves the plaintext of every accumulator as it was; and the sum of
\* an election's plaintext tallies is at most its number of ballot records,
\* with equality exactly when every accepted choice is an option index.
C31_OutOfRangeBallots ==
    /\ \A sender \in Addresses, e \in Ids, c \in Choices :
          (Exists(e) /\ voteGuard(sender, e) = OK /\ c >= OptionCount(e)) =>
              LET out == VoteOutcome(sender, e, [val |-> c, proofOk |-> TRUE])
              IN /\ out.err = OK
                 /\ out.hasVoted[e][sender]
                 /\ \A i \in OptionIndexes : out.tallies[e][i].val = tallies[e][i].val
    /\ \A e \in Ids :
          Exists(e) =>
              /\ TallySum(e) <= Cardinality(BallotRecords(e))
              /\ (TallySum(e) = Cardinality(BallotRecords(e))) <=> ValidBallots(e)

\* A finalized two-option election with two ballot records, one for the
\* choice 2 and one for option 1: the public tallies are 0 and 1, and the
\* voter of the choice 2 cannot vote again.
C31_Witness ==
    \E e \in Ids :
        /\ OptionCount(e) = 2 /\ elections[e].finalized
        /\ ballots[e]["alice"] = <<2>> /\ ballots[e]["bob"] = <<1>>
        /\ BallotRecords(e) = Addresses
        /\ publicDecrypt(getEncryptedTally(e, 0).value) = 0
        /\ publicDecrypt(getEncryptedTally(e, 1).value) = 1
        /\ TallySum(e) = 1
        /\ VoteOutcome("alice", e, AnyInput).err # OK

\* C32: createElection reports the first failing check in the order empty
\* name (EmptyOption), closing time <= now (InvalidEndTime), option count
\* outside [2, 8] (InvalidOptionCount), an empty label (EmptyOption), and
\* succeeds when none fails.
C32_CreateCheckOrder ==
    \A r \in CreateInputs :
        OutcomeOf(r).err =
            IF r.name = "" THEN "EmptyOption"
            ELSE IF r.endTime <= now THEN "InvalidEndTime"
            ELSE IF ~CountInRange(r.options) THEN "InvalidOptionCount"
            ELSE IF HasEmptyLabel(r.options) THEN "EmptyOption"
            ELSE OK

\* At time 1, with one election stored: an empty name with nine labels is
\* refused with EmptyOption, a past closing time with one label with
\* InvalidEndTime, and one label with an empty one among three labels with
\* InvalidOptionCount and EmptyOption.
C32_Witness ==
    /\ now = 1 /\ nextElectionId = 1
    /\ CreateOutcome("bob", "", <<"1", "2", "3", "4", "5", "6", "7", "8", "9">>, 2).err
          = "EmptyOption"
    /\ CreateOutcome("bob", "Poll", <<"Yes">>, 1).err = "InvalidEndTime"
    /\ CreateOutcome("bob", "Poll", <<"">>, 2).err = "InvalidOptionCount"
    /\ CreateOutcome("bob", "Poll", <<"A", "", "C">>, 2).err = "EmptyOption"
    /\ CreateOutcome("bob", "Budget", <<"A", "B", "C">>, 2).err = OK

\* The options of e whose accumulator is initialised.
Initialised(e) == {i \in OptionsOf(e) : isInitialized(tallies[e][i])}

\* The options of e for which finalizeElection would take an encrypted zero
\* (lines 122-124).
Substituted(e) == {i \in OptionsOf(e) : ~isInitialized(tallies[e][i])}

\* C33: for every election either no option accumulator is initialised,
\* exactly when it has no ballot record and is not finalized, or every one
\* is; so finalizeElection takes the encrypted zero for all options or for
\* none.
C33_UniformInitialisation ==
    \A e \in Ids :
        Exists(e) =>
            /\ Initialised(e) = {} \/ Initialised(e) = OptionsOf(e)
            /\ (Initialised(e) = {}) <=> (BallotRecords(e) = {} /\ ~elections[e].finalized)
            /\ Substituted(e) = OptionsOf(e) \/ Substituted(e) = {}

\* One election finalized without a vote (zeros substituted for all three
\* options) and one that has taken a vote and is not finalized (nothing
\* left to substitute).
C33_Witness ==
    \E e, f \in Ids :
        /\ elections[e].finalized /\ BallotRecords(e) = {}
        /\ Initialised(e) = OptionsOf(e) /\ OptionCount(e) >= 2
        /\ Exists(f) /\ ~elections[f].finalized /\ Cardinality(BallotRecords(f)) = 1
        /\ Initialised(f) = OptionsOf(f) /\ Substituted(f) = {}

====
